---- MODULE Spec2Model ----
(***************************************************************************)
(* Model of the two training scripts of AmazonML2023:                      *)
(*   end_to_end.py  epoch loop, checkpoint rotation, resume                *)
(*   train.py       Trainer.train / Trainer.val / Trainer.save             *)
(* Tensors are abstracted to the scalars the control flow reads (the       *)
(* validation metric of an epoch is an input drawn from a small set); the  *)
(* save directory is a function from file names to the saved state dict.   *)
(***************************************************************************)
EXTENDS Integers, Sequences, FiniteSets, TLC

\* ------------------------------------------------------------------ bounds
MaxEpochs == 3          \* largest number of epochs one invocation runs
MaxMape == 2            \* validation MAPE of an epoch ranges over 0..MaxMape
MaxSaveEvery == 2       \* --save_every ranges over 1..MaxSaveEvery
MaxTrain == 2           \* |train set| ranges over 1..MaxTrain
MaxBatch == 2           \* --batch_size ranges over 1..MaxBatch
MaxPrior == 12          \* epochs of the earlier run that filled the directory

\* np.inf (end_to_end.py:142): above every metric value any run computes
Inf == MaxMape + MaxPrior + 1

\* the cap of save_checkpoint's "if len(past_best) >= 5"
BestCap == 5

\* digits of --run_name, in order: "v0" (the default), "run", "exp10"
DefaultRun == <<0>>
RunNames == {<<0>>, <<>>, <<1, 0>>}

Min(a, b) == IF a <= b THEN a ELSE b

VARIABLES
    pc,         \* end_to_end.py: "start" | "loop" | "done"
    args,       \* the argparse namespace fields the loop reads and writes
    epoch,      \* loop variable of train()
    dir,        \* checkpoints/<run_name>: file name -> saved state
    train_set,  \* len(train_set)
    prior,      \* epochs the earlier run on this directory ran (0: none)
    best_saves, \* save_checkpoint calls with is_best, over all runs on the directory
    overwrote,  \* whether one of them wrote a best file name that already existed
    resumed,    \* what main() loaded: the file --resume names and its state
    last,       \* record of the most recent epoch body (inputs and decisions)
    seen,       \* validation MAPEs computed so far in this invocation
    truth,      \* file name -> (iter, best) of the writing run after that epoch
    \* train.py, Trainer
    t_pc,       \* "start" | "loop" | "done" | "raised"
    t_args,     \* --epochs, --val_interval
    t_epoch,    \* the loop variable of Trainer.train (Unbound before the loop binds it)
    t_next,     \* the next value range(1, epochs + 1) yields
    t_self,     \* self.loss (its length), self.mse, self.best_mse, the regressor
    t_files,    \* <save>/best.pt and <save>/last.pt: name -> save_dict
    t_ran,      \* the epochs whose body ran, in order; final validations run
    \* val() of both scripts on one validation set
    v_pc,       \* "start" | "done"
    v_set,      \* targets y and model predictions, by row index
    v_batch,    \* batch size of the validation loader
    v_shape,    \* shape of the model output in end_to_end.py: "B" or "Bx1"
    v_mape      \* the MAPE each script's val returned: [num, den], or NoValue

e_vars == <<pc, args, epoch, dir, train_set, prior, best_saves, overwrote, resumed, last,
            seen, truth>>
t_vars == <<t_pc, t_args, t_epoch, t_next, t_self, t_files, t_ran>>
v_vars == <<v_pc, v_set, v_batch, v_shape, v_mape>>
vars == <<e_vars, t_vars, v_vars>>

\* ----------------------------------------------------------- file names
PeriodicName(e) == [kind |-> "epoch", epoch |-> e]       \* epoch_<e>.pth.tar
BestName(e) == [kind |-> "best", epoch |-> e]            \* model_best_epoch_<e>.pth.tar

\* --resume "" (end_to_end.py:156): no checkpoint is loaded
NoFile == [kind |-> "none", epoch |-> -1]
NoCkpt == [epoch |-> -1, iter |-> 0, best_val_mape |-> Inf]

Remove(d, f) == [x \in (DOMAIN d) \ {f} |-> d[x]]
Put(d, f, v) == [x \in (DOMAIN d) \cup {f} |-> IF x = f THEN v ELSE d[x]]

\* str(n) of a non-negative int, as its decimal digits
RECURSIVE Digits(_)
Digits(n) == IF n < 10 THEN <<n>> ELSE Digits(n \div 10) \o <<n % 10>>

\* int(s) of a digit string
RECURSIVE IntOf(_)
IntOf(ds) == IF ds = <<>> THEN 0
             ELSE 10 * IntOf(SubSeq(ds, 1, Len(ds) - 1)) + ds[Len(ds)]

\* "".join(filter(str.isdigit, path)) for path =
\* checkpoints/<run_name>/model_best_epoch_<e>.pth.tar
PathDigits(run, f) == run \o Digits(f.epoch)

\* the rank of str(epoch) in string order (what sorting the paths themselves gives)
RECURSIVE LexRank(_, _)
LexRank(ds, width) ==
    IF width = 0 THEN 0
    ELSE LET d == IF ds = <<>> THEN 0 ELSE ds[1] + 1
             rest == IF ds = <<>> THEN <<>> ELSE Tail(ds)
         IN  d * (11 ^ (width - 1)) + LexRank(rest, width - 1)
\* the sort key of a best file (variant: the order of the paths as strings)
SortKeyLexical(run, f) == LexRank(Digits(f.epoch), 4)
SortKey(run, f) == IntOf(PathDigits(run, f))

\* glob(model_best_*.pth.tar)
GlobBest(d) == {f \in DOMAIN d : f.kind = "best"}

\* candidates for sorted(past_best, key=...)[0]
PastBest0(run, past_best) ==
    {f \in past_best : \A g \in past_best : SortKey(run, f) <= SortKey(run, g)}

\* ----------------------------------------------------- train() decisions
\* is_best = val_mape < args.best_val_mape (variant: a non-strict comparison)
IsBestLe(val_mape, best) == val_mape <= best
IsBest(val_mape, best) == val_mape < best

BestAfter(is_best, val_mape, best) == IF is_best THEN val_mape ELSE best

SaveDue(e, save_every) == e % save_every = 0

\* the periodic file one save interval back (variant: always one epoch back)
LastEpochNameFixed(e, save_every) == PeriodicName(e - 1)
LastEpochName(e, save_every) == PeriodicName(e - save_every)

\* one pass of train_one_epoch over a data set of n samples: args.iter += B
\* (variant: a counter of batches, += 1)
RECURSIVE train_one_epoch_steps(_, _, _)
train_one_epoch_steps(iter, n, batch_size) ==
    IF n = 0 THEN iter
    ELSE train_one_epoch_steps(iter + 1, n - Min(batch_size, n), batch_size)
RECURSIVE train_one_epoch(_, _, _)
train_one_epoch(iter, n, batch_size) ==
    IF n = 0 THEN iter
    ELSE LET B == Min(batch_size, n)
         IN train_one_epoch(iter + B, n - B, batch_size)

\* the state dict of lines 30-36, built after train_one_epoch and the update of
\* args.best_val_mape
CkptState(e, iter1, best1) ==
    [epoch |-> e, iter |-> iter1, best_val_mape |-> best1]

\* len(past_best) >= 5 (variant: > 5)
CapReachedAbove(past_best) == Cardinality(past_best) > BestCap
CapReached(past_best) == Cardinality(past_best) >= BestCap

\* save_checkpoint: the set of directories it can leave
save_checkpoint(d, state, is_best, a) ==
    LET d1 == Put(d, PeriodicName(state.epoch), state)
        d2 == Remove(d1, LastEpochName(state.epoch, a.save_every))
        past_best == GlobBest(d2)
    IN  IF ~is_best THEN {d2}
        ELSE IF CapReached(past_best)
             THEN {Put(Remove(d2, v), BestName(state.epoch), state) :
                      v \in PastBest0(a.run_name, past_best)}
             ELSE {Put(d2, BestName(state.epoch), state)}

\* lines 18-39 of train(): the body of one epoch, as the set of outcomes
\* (the arguments after it, the directory after it, the decisions taken)
train_body(a, d, e, n, val_mape) ==
    LET iter1 == train_one_epoch(a.iter, n, a.batch_size)
        is_best == IsBest(val_mape, a.best_val_mape)
        best1 == BestAfter(is_best, val_mape, a.best_val_mape)
        state == CkptState(e, iter1, best1)
        due == SaveDue(e, a.save_every)
        a1 == [a EXCEPT !.iter = iter1, !.best_val_mape = best1]
    IN  {[args |-> a1, dir |-> d1, is_best |-> is_best, saved |-> due] :
            d1 \in IF due THEN save_checkpoint(d, state, is_best, a1) ELSE {d}}

\* ghost: the body of epoch e saved a best file under a name d already held
Overwrites(r, d, e) == r.saved /\ r.is_best /\ BestName(e) \in DOMAIN d

\* ghost: the files the body of epoch e wrote carry the run's counters after e,
\* which are the counters the uninterrupted run has at the start of epoch e + 1
TruthAfter(t, r, e) ==
    [f \in DOMAIN r.dir |->
        IF r.saved /\ (f = PeriodicName(e) \/ (r.is_best /\ f = BestName(e)))
        THEN [iter |-> r.args.iter, best_val_mape |-> r.args.best_val_mape]
        ELSE t[f]]

\* ---------------------------------------------------------------- main()
\* args.start_epoch = state["epoch"] + 1 (variant: the saved epoch is run again)
ResumeStartSame(state) == state.epoch
ResumeStart(state) == state.epoch + 1

FreshArgs(a) == [a EXCEPT !.start_epoch = 0, !.iter = 0, !.best_val_mape = Inf]

EmptyLast == [n |-> 0, epoch |-> -1, val_mape |-> Inf, prev_best |-> Inf,
              prev_iter |-> 0, is_best |-> FALSE, saved |-> FALSE, prev_ckpt |-> -1]

\* main(): open the save directory, resume or start fresh, then call train()
main ==
    /\ pc = "start"
    /\ \E resume \in {NoFile} \cup DOMAIN dir :
        LET fresh == resume \notin DOMAIN dir
            state == IF fresh THEN NoCkpt ELSE dir[resume]
            a1 == IF fresh THEN FreshArgs(args)
                  ELSE [args EXCEPT !.best_val_mape = state.best_val_mape,
                                    !.start_epoch = ResumeStart(state),
                                    !.iter = state.iter]
        IN  /\ \E more \in 0..MaxEpochs :
                 args' = [a1 EXCEPT !.epochs = IF more = 0 THEN 0
                                               ELSE a1.start_epoch + more]
            /\ epoch' = a1.start_epoch
            /\ resumed' = [file |-> resume, state |-> state,
                           want |-> IF fresh THEN [iter |-> 0, best_val_mape |-> Inf]
                                    ELSE truth[resume]]
            /\ last' = [EmptyLast EXCEPT !.prev_ckpt = state.epoch]
    /\ pc' = "loop"
    /\ seen' = {}
    /\ UNCHANGED <<dir, train_set, truth, prior, best_saves, overwrote, t_vars, v_vars>>

\* one iteration of the for loop of train()
train ==
    /\ pc = "loop"
    /\ epoch < args.epochs
    /\ \E val_mape \in 0..MaxMape :
        \E r \in train_body(args, dir, epoch, train_set, val_mape) :
            /\ args' = r.args
            /\ dir' = r.dir
            /\ truth' = TruthAfter(truth, r, epoch)
            /\ best_saves' = best_saves + (IF r.saved /\ r.is_best THEN 1 ELSE 0)
            /\ overwrote' = (overwrote \/ Overwrites(r, dir, epoch))
            /\ last' = [n |-> last.n + 1, epoch |-> epoch, val_mape |-> val_mape,
                        prev_best |-> args.best_val_mape, prev_iter |-> args.iter,
                        is_best |-> r.is_best, saved |-> r.saved,
                        prev_ckpt |-> IF last.saved THEN last.epoch ELSE last.prev_ckpt]
            /\ seen' = seen \cup {val_mape}
    /\ epoch' = epoch + 1
    /\ UNCHANGED <<pc, train_set, resumed, prior, t_vars, v_vars>>

\* range(start_epoch, epochs) is exhausted: train() and main() return
train_return ==
    /\ pc = "loop"
    /\ epoch >= args.epochs
    /\ pc' = "done"
    /\ UNCHANGED <<args, epoch, dir, train_set, resumed, last, seen, truth, prior, best_saves,
                   overwrote, t_vars, v_vars>>

\* ================================================================ train.py
MaxTEpochs == 3         \* --epochs of train.py ranges over 0..MaxTEpochs
MaxValInterval == 2     \* --val_interval ranges over 1..MaxValInterval
MaxMse == 3             \* the validation mse of an epoch ranges over 0..MaxMse

\* self.best_mse= 100000000
InitialBestMse == 100000000

\* the loop variable before "for epoch in range(...)" has bound it
Unbound == -1

TrainerIdle ==
    /\ t_pc = "start"
    /\ t_args = [epochs |-> 0, val_interval |-> 1]
    /\ t_epoch = Unbound
    /\ t_next = 1
    /\ t_self = [loss |-> 0, mse |-> <<>>, best_mse |-> InitialBestMse, regressor |-> 0]
    /\ t_files = <<>>
    /\ t_ran = [bodies |-> <<>>, final_vals |-> 0]

\* Trainer.save(star, epoch): the save_dict written to <star>.pt
SaveDict(self, e) ==
    [model |-> self.regressor, loss |-> self.loss, mse |-> self.mse,
     best_mse |-> self.best_mse, epoch |-> e]

\* Trainer.train, lines 88-91
Trainer_train ==
    /\ t_pc = "start"
    /\ \E epochs \in 0..MaxTEpochs, val_interval \in 1..MaxValInterval :
         t_args' = [epochs |-> epochs, val_interval |-> val_interval]
    /\ t_self' = [loss |-> 0, mse |-> <<>>, best_mse |-> InitialBestMse, regressor |-> 0]
    /\ t_next' = 1
    /\ t_pc' = "loop"
    /\ UNCHANGED <<t_epoch, t_files, t_ran, e_vars, v_vars>>

\* Trainer.train, lines 92-101: one iteration of the epoch loop
Trainer_train_epoch ==
    /\ t_pc = "loop"
    /\ t_next <= t_args.epochs
    /\ t_epoch' = t_next
    /\ t_next' = t_next + 1
    /\ t_ran' = [t_ran EXCEPT !.bodies = Append(@, t_next)]
    /\ LET trained == [t_self EXCEPT !.loss = @ + 1, !.regressor = @ + 1]
       IN  IF t_next % t_args.val_interval = 0
           THEN \E mse \in 0..MaxMse :
                  LET self1 == [trained EXCEPT !.mse = Append(@, mse)]
                  IN  /\ t_files' = IF mse < self1.best_mse
                                    THEN Put(t_files, "best", SaveDict(self1, t_next))
                                    ELSE t_files
                      /\ t_self' = IF mse < self1.best_mse
                                   THEN [self1 EXCEPT !.best_mse = mse]
                                   ELSE self1
           ELSE /\ t_self' = trained
                /\ t_files' = t_files
    /\ UNCHANGED <<t_pc, t_args, e_vars, v_vars>>

\* Trainer.train, lines 103-104: the final validation, then save('last', epoch);
\* reading epoch raises when the loop never bound it
Trainer_train_end ==
    /\ t_pc = "loop"
    /\ t_next > t_args.epochs
    /\ t_ran' = [t_ran EXCEPT !.final_vals = @ + 1]
    /\ IF t_epoch = Unbound
       THEN /\ t_pc' = "raised"
            /\ t_files' = t_files
       ELSE /\ t_pc' = "done"
            /\ t_files' = Put(t_files, "last", SaveDict(t_self, t_epoch))
    /\ UNCHANGED <<t_args, t_epoch, t_next, t_self, e_vars, v_vars>>

\* ============================================== val() of both scripts
MaxVal == 3             \* the validation set has 1..MaxVal rows
MaxAbs == 1             \* targets and predictions range over -MaxAbs..MaxAbs
MaxValBatch == 2        \* batch size of the validation loader

Abs(x) == IF x < 0 THEN -x ELSE x

\* Numbers are counted in units of the epsilon 1e-8 of both val functions, so
\* that |y| + 1e-8 is Abs(y) + 1; a quotient q is kept exactly as q * Scale, with
\* Scale a common multiple of every denominator Abs(y) + 1.
RECURSIVE Factorial(_)
Factorial(n) == IF n <= 1 THEN 1 ELSE n * Factorial(n - 1)
Scale == Factorial(MaxAbs + 1)

NoValue == [num |-> -1, den |-> 0]

\* torch.abs(out - y) / (torch.abs(y) + 1e-8), one element
Ape(out, y) == (Abs(out - y) * Scale) \div (Abs(y) + 1)

\* torch.sum of the quotients at the index pairs <<i, j>> (out row i, y row j)
RECURSIVE SumOver(_, _, _)
SumOver(pairs, out, y) ==
    IF pairs = {} THEN 0
    ELSE LET ij == CHOOSE x \in pairs : TRUE
         IN  Ape(out[ij[1]], y[ij[2]]) + SumOver(pairs \ {ij}, out, y)

\* torch.sum over a batch of rows `rows` when out and y are both of shape (B,)
BatchSumElementwise(rows, out, y) == SumOver({<<i, i>> : i \in rows}, out, y)

\* torch.sum when out is (B, 1) and y is (B,): the difference broadcasts to (B, B)
BatchSumBroadcast(rows, out, y) == SumOver(rows \X rows, out, y)

\* the rows of batch b (from 0) of an unshuffled loader over n rows
BatchRows(b, n, batch_size) ==
    {i \in 1..n : (i - 1) \div batch_size = b}
NumBatches(n, batch_size) == (n + batch_size - 1) \div batch_size

\* what one batch adds to mape, by the shape of the model output
BatchSum(rows, set, shape) ==
    IF shape = "Bx1" THEN BatchSumBroadcast(rows, set.out, set.y)
    ELSE BatchSumElementwise(rows, set.out, set.y)

\* the loop of val: mape += torch.sum(...) over the batches in order
RECURSIVE MapeLoop(_, _, _, _, _)
MapeLoop(b, set, batch_size, shape, mape) ==
    IF b >= NumBatches(Len(set.y), batch_size) THEN mape
    ELSE MapeLoop(b + 1, set, batch_size, shape,
                  mape + BatchSum(BatchRows(b, Len(set.y), batch_size), set, shape))

\* end_to_end.py val: output is used as the model returns it; the sum is
\* divided by len(val_loader.dataset)
end_to_end_val_mape(set, batch_size, shape) ==
    [num |-> MapeLoop(0, set, batch_size, shape, 0), den |-> Scale * Len(set.y)]

\* train.py Trainer.val: output = self(emb).squeeze(1); the sum is returned
Trainer_val_mape(set, batch_size) ==
    [num |-> MapeLoop(0, set, batch_size, "B", 0), den |-> Scale]

\* the shapes TransformerRegressor.forward may return for a batch of B rows
OutputShapes == {"B", "Bx1"}

ValIdle ==
    /\ v_pc = "start"
    /\ v_set = [y |-> <<0>>, out |-> <<0>>]
    /\ v_batch = 1
    /\ v_shape = "B"
    /\ v_mape = [e2e |-> NoValue, train |-> NoValue]

end_to_end_val ==
    /\ v_pc = "start"
    /\ v_mape.e2e = NoValue
    /\ v_mape' = [v_mape EXCEPT !.e2e = end_to_end_val_mape(v_set, v_batch, v_shape)]
    /\ v_pc' = IF v_mape.train = NoValue THEN "start" ELSE "done"
    /\ UNCHANGED <<v_set, v_batch, v_shape, e_vars, t_vars>>

Trainer_val ==
    /\ v_pc = "start"
    /\ v_mape.train = NoValue
    /\ v_mape' = [v_mape EXCEPT !.train = Trainer_val_mape(v_set, v_batch)]
    /\ v_pc' = IF v_mape.e2e = NoValue THEN "start" ELSE "done"
    /\ UNCHANGED <<v_set, v_batch, v_shape, e_vars, t_vars>>

\* the flags as parsed (end_to_end.py:149-163)
Flags(save_every, batch_size, run_name) ==
    [save_every |-> save_every, epochs |-> 0, batch_size |-> batch_size,
     run_name |-> run_name, start_epoch |-> 0, iter |-> 0, best_val_mape |-> Inf]

\* An earlier invocation on the same directory: a fresh run of p epochs whose
\* validation MAPE fell at every epoch, computed with the epoch body itself.
PriorMape(p, e) == MaxMape + (p - 1 - e)

RECURSIVE PriorRun(_, _, _, _)
PriorRun(a, n, p, k) ==
    IF k = 0 THEN [args |-> [FreshArgs(a) EXCEPT !.epochs = p], dir |-> <<>>,
                   truth |-> <<>>, best_saves |-> 0, overwrote |-> FALSE]
    ELSE LET s == PriorRun(a, n, p, k - 1)
             r == CHOOSE x \in train_body(s.args, s.dir, k - 1, n, PriorMape(p, k - 1)) : TRUE
         IN  [args |-> r.args, dir |-> r.dir,
              truth |-> TruthAfter(s.truth, r, k - 1),
              best_saves |-> s.best_saves + (IF r.saved /\ r.is_best THEN 1 ELSE 0),
              overwrote |-> (s.overwrote \/ Overwrites(r, s.dir, k - 1))]

InitWith(a, n, p) ==
    /\ pc = "start"
    /\ args = a
    /\ epoch = 0
    /\ train_set = n
    /\ prior = p
    /\ dir = PriorRun(a, n, p, p).dir
    /\ truth = PriorRun(a, n, p, p).truth
    /\ best_saves = PriorRun(a, n, p, p).best_saves
    /\ overwrote = PriorRun(a, n, p, p).overwrote
    /\ resumed = [file |-> NoFile, state |-> NoCkpt,
                  want |-> [iter |-> 0, best_val_mape |-> Inf]]
    /\ last = EmptyLast
    /\ seen = {}
    /\ TrainerIdle
    /\ ValIdle

\* a first invocation: an empty save directory, the default run name
Init ==
    \E save_every \in 1..MaxSaveEvery, batch_size \in 1..MaxBatch, n \in 1..MaxTrain :
        InitWith(Flags(save_every, batch_size, DefaultRun), n, 0)

\* an invocation on a directory an earlier run of 0..MaxPrior epochs filled
InitDir ==
    \E save_every \in 1..MaxSaveEvery, run_name \in RunNames, p \in 0..MaxPrior,
       n \in {MaxTrain, MaxTrain + 1} :
        InitWith(Flags(save_every, MaxBatch, run_name), n, p)

Next == main \/ train \/ train_return

Spec == Init /\ [][Next]_vars
SpecDir == InitDir /\ [][Next]_vars

\* train.py alone
InitTrainer ==
    /\ InitWith(Flags(1, 1, DefaultRun), 1, 0)

NextTrainer == Trainer_train \/ Trainer_train_epoch \/ Trainer_train_end

SpecTrainer == InitTrainer /\ [][NextTrainer]_vars

\* val() alone: every validation set of 1..MaxVal rows, every batch size
Values == (0 - MaxAbs)..MaxAbs

InitVal ==
    /\ pc = "start"
    /\ args = Flags(1, 1, DefaultRun)
    /\ epoch = 0
    /\ train_set = 1
    /\ prior = 0
    /\ dir = <<>>
    /\ truth = <<>>
    /\ best_saves = 0
    /\ overwrote = FALSE
    /\ resumed = [file |-> NoFile, state |-> NoCkpt,
                  want |-> [iter |-> 0, best_val_mape |-> Inf]]
    /\ last = EmptyLast
    /\ seen = {}
    /\ TrainerIdle
    /\ v_pc = "start"
    /\ \E n \in 1..MaxVal :
         \E y \in [1..n -> Values], out \in [1..n -> Values] :
            v_set = [y |-> y, out |-> out]
    /\ v_batch \in 1..MaxValBatch
    /\ v_shape \in OutputShapes
    /\ v_mape = [e2e |-> NoValue, train |-> NoValue]

NextVal == end_to_end_val \/ Trainer_val

SpecVal == InitVal /\ [][NextVal]_vars

\* ------------------------------------------------------------ properties
Periodic(d) == {f \in DOMAIN d : f.kind = "epoch"}
LatestSaved == IF last.saved THEN last.epoch ELSE last.prev_ckpt
Fresh == resumed.file = NoFile
MinOf(S) == CHOOSE x \in S : \A y \in S : x <= y

\* C1: in a fresh run on an empty save directory, once save_checkpoint has been
\* called the directory holds exactly one periodic file, epoch_<e>.pth.tar of the
\* epoch saved last, for every save_every >= 1 (every earlier one is deleted).
C1_PeriodicRing ==
    (prior = 0 /\ Fresh /\ LatestSaved >= 0) =>
        /\ Periodic(dir) = {PeriodicName(LatestSaved)}
        /\ dir[PeriodicName(LatestSaved)].epoch = LatestSaved

C1_Witness ==
    /\ prior = 0 /\ Fresh /\ last.saved
    /\ args.save_every = 2 /\ last.epoch = 2
    /\ PeriodicName(0) \notin DOMAIN dir

C3_Resume ==
    (~Fresh /\ pc # "start") =>
        /\ args.start_epoch = resumed.state.epoch + 1
        /\ last.n = 0 =>
              /\ epoch = resumed.state.epoch + 1
              /\ args.iter = resumed.state.iter
              /\ args.best_val_mape = resumed.state.best_val_mape
              /\ args.iter = resumed.want.iter
              /\ args.best_val_mape = resumed.want.best_val_mape
        /\ last.n = 1 =>
              /\ last.epoch = resumed.state.epoch + 1
              /\ last.prev_iter = resumed.want.iter
              /\ last.is_best <=> (last.val_mape < resumed.want.best_val_mape)

C3_Witness ==
    /\ ~Fresh /\ last.n = 1 /\ resumed.state.epoch >= 1
    /\ resumed.file.kind = "best" /\ ~last.is_best

\* C4: every epoch whose validation MAPE is below the best so far gets a
\* model_best_epoch_<epoch>.pth.tar holding that epoch's state, for every
\* save_every >= 1; so a finite args.best_val_mape is stored in a best file.
C4_BestWritten ==
    /\ (last.n > 0 /\ last.is_best) =>
          /\ BestName(last.epoch) \in DOMAIN dir
          /\ dir[BestName(last.epoch)].best_val_mape = last.val_mape
    /\ (pc # "start" /\ args.best_val_mape < Inf) =>
          \E f \in GlobBest(dir) : dir[f].best_val_mape = args.best_val_mape

\* C6: every epoch adds exactly |train set| to args.iter (never decreasing it);
\* each checkpoint written has a larger epoch than the one written before it in
\* the run and than the resumed one, and stores the counter as it is after the
\* epoch; in a fresh run that is (e + 1) * |train set|.
C6_MonotonicCounters ==
    last.n > 0 =>
        /\ args.iter = last.prev_iter + train_set
        /\ args.iter >= resumed.state.iter
        /\ last.saved =>
              /\ last.epoch > last.prev_ckpt
              /\ last.epoch > resumed.state.epoch
              /\ dir[PeriodicName(last.epoch)].epoch = last.epoch
              /\ dir[PeriodicName(last.epoch)].iter = args.iter
              /\ Fresh => dir[PeriodicName(last.epoch)].iter = (last.epoch + 1) * train_set
              /\ ~Fresh => dir[PeriodicName(last.epoch)].iter > resumed.state.iter

C6_Witness ==
    /\ ~Fresh /\ last.saved /\ last.n >= 2 /\ last.prev_ckpt > resumed.state.epoch
    /\ train_set > args.batch_size

\* C8: a best save that finds 5 or more best files deletes exactly the one with
\* the smallest epoch number, whatever digits the run name has and whatever the
\* digit counts of the epochs; the files kept all have larger epochs.
C8_EvictOldest ==
    [][(last'.n = last.n + 1 /\ last'.saved /\ last'.is_best
        /\ Cardinality(GlobBest(dir)) >= BestCap) =>
          \E v \in GlobBest(dir) :
              /\ \A f \in GlobBest(dir) \ {v} : f.epoch > v.epoch
              /\ GlobBest(dir') = (GlobBest(dir) \ {v}) \cup {BestName(last'.epoch)}]_vars

C8_Witness ==
    /\ last.saved /\ last.is_best /\ last.epoch >= 12
    /\ args.run_name = <<1, 0>>
    /\ BestName(7) \notin DOMAIN dir
    /\ {BestName(8), BestName(9), BestName(10), BestName(11)} \subseteq DOMAIN dir

\* C10: args.best_val_mape starts at infinity (or the restored value), never
\* increases, and after every epoch is the minimum of its start value and all
\* MAPEs of the run, save epoch or not; is_best is exactly "MAPE below the
\* previous value", so epoch 0 of a fresh run is best and is saved.
C10_RunningMin ==
    pc # "start" =>
        /\ args.best_val_mape =
              MinOf({IF Fresh THEN Inf ELSE resumed.state.best_val_mape} \cup seen)
        /\ last.n > 0 =>
              /\ last.is_best <=> (last.val_mape < last.prev_best)
              /\ args.best_val_mape <= last.prev_best
        /\ (Fresh /\ last.n > 0 /\ last.epoch = 0) =>
              /\ last.is_best /\ last.saved
              /\ BestName(0) \in DOMAIN dir
              /\ dir[BestName(0)].best_val_mape = last.val_mape

C10_Witness ==
    /\ last.n >= 2 /\ last.is_best /\ ~last.saved
    /\ last.val_mape < last.prev_best /\ last.prev_best < Inf

\* end_to_end.py: the epoch body runs once for each epoch of
\* range(start_epoch, epochs), in increasing order, and the loop then ends.
E2E_LoopRunsEachEpochOnce ==
    /\ last.n > 0 => last.epoch = args.start_epoch + last.n - 1
    /\ pc = "loop" => epoch = args.start_epoch + last.n
    /\ pc = "done" =>
          /\ last.n = (IF args.epochs > args.start_epoch
                       THEN args.epochs - args.start_epoch ELSE 0)
          /\ epoch = args.start_epoch + last.n

\* C5: train.py runs the epoch body once for each epoch 1..epochs, in order, then
\* one final validation, and writes last.pt: it always ends in its terminal state.
C5_Terminates ==
    (t_pc \in {"done", "raised"}) =>
        /\ t_pc = "done"
        /\ t_ran.bodies = [i \in 1..t_args.epochs |-> i]
        /\ t_ran.final_vals = 1
        /\ "last" \in DOMAIN t_files

\* C7: the MAPE val returns is never negative, and is 0 when every prediction
\* equals its own target, in both scripts, for every batch size.
C7_Mape ==
    \A m \in {v_mape.e2e, v_mape.train} :
        m # NoValue =>
            /\ m.num >= 0 /\ m.den > 0
            /\ (v_set.out = v_set.y) => m.num = 0

\* C9: best.pt stores as best_mse the validation mse of the parameters stored
\* with it (the last element of the stored mse list), which is the trainer's
\* best_mse after that epoch.
C9_BestSelfConsistent ==
    "best" \in DOMAIN t_files =>
        /\ t_files["best"].best_mse = t_files["best"].mse[Len(t_files["best"].mse)]
        /\ (t_epoch = t_files["best"].epoch) => t_files["best"].best_mse = t_self.best_mse
====
